---- MODULE Spec2Model ----
(***************************************************************************)
(* The resumable, concurrent classification pipeline of                    *)
(* scripts/axial_coding/classify.py: ThemeClassifier (the loader of the    *)
(* processed ids, the append to the NDJSON output file, classify_item and  *)
(* run with its thread pool), one process after another on one output      *)
(* file.                                                                   *)
(***************************************************************************)
EXTENDS Integers, Sequences, FiniteSets, TLC

\* ------------------------------------------------------------------ bounds
MaxItems == 2       \* records of the input file
MaxRuns == 2        \* processes started, one after another, on the output file
MaxWorkers == 2     \* largest --workers value tried
MaxLines == 3       \* lines of a hand-made output file given to the loader
MaxScores == 3      \* feedback scores of the file given to create_linked_data

\* --------------------------------------------------------------- constants
\* The threshold of `len(comment.strip()) > 10` and `< 10`.
MinCommentLen == 10

\* data.get("alert_id") of an object without that key: None.
NoId == 0

VALID_THEMES ==
    { "AUTHORIZED_USER_ACTIVITY", "AI_VERDICT_INCONSISTENCY", "LEGITIMATE_SOFTWARE",
      "ORGANIZATIONAL_POLICY", "INSUFFICIENT_EVIDENCE", "OTHER" }

\* ------------------------------------------------------------ input records
\* A string, as far as the code looks at it: its truth value (non-empty) and
\* the length of its strip().
Str(n) == [truthy |-> n > 0, trim |-> n]
Absent == Str(0)

\* The answers of the deterministic model stub: a JSON object with a theme, a
\* text that is not JSON, or an exception of the client (network error).
RespTheme(t) == [kind |-> "json", theme |-> t]
RespBadJson == [kind |-> "badjson", theme |-> ""]
RespRaise == [kind |-> "raise", theme |-> ""]

\* generate_content is called without a timeout: a call the service never
\* answers.
RespStall == [kind |-> "stall", theme |-> ""]

Score(c, v) == [comment |-> Str(c), value |-> Str(v)]

\* gen: what classify_item finds as the generation observation of the first
\* trace. "none": no trace or no such observation; "valid": a JSON object with
\* the assessment; "badjson": content that json.loads rejects; "nonobj": content
\* that is JSON and no object; "notmapping": an output that is no dict;
\* "badgaps": investigative_gaps that ", ".join rejects.
GenKinds == {"none", "valid", "badjson", "nonobj", "notmapping", "badgaps"}

Record(id, hc, scores, resp) ==
    [alert_id |-> id, human_comment |-> Str(hc), feedback_scores |-> scores,
     resp |-> resp, gen |-> "none"]
WithGen(r, g) == [r EXCEPT !.gen = g]

\* The shapes of record the input file is drawn from (alert_id filled in).
Profiles(id) ==
    { Record(id, MinCommentLen + 1, <<>>, RespTheme("AUTHORIZED_USER_ACTIVITY")),
      Record(id, MinCommentLen + 1, <<>>, RespTheme("NOT_A_REAL_THEME")),
      Record(id, MinCommentLen + 1, <<>>, RespRaise),
      Record(id, MinCommentLen + 1, <<>>, RespBadJson),
      Record(id, MinCommentLen, <<>>, RespTheme("LEGITIMATE_SOFTWARE")),
      Record(id, 0, <<Score(MinCommentLen + 1, 0)>>, RespTheme("OTHER")),
      Record(id, 0, <<Score(0, MinCommentLen + 1)>>, RespTheme("ORGANIZATIONAL_POLICY")) }

\* ------------------------------------------------------- the output file
\* One line of the output file. kind: "result" (a JSON object with alert_id),
\* "noid" (a JSON object without alert_id), "malformed" (json.loads raises
\* JSONDecodeError), "nonobj" (valid JSON that is no object: data.get raises
\* AttributeError), "blank" (only whitespace). nl: the line ends with "\n";
\* only the last line of a file can lack it.
Line(kind, id, theme, nl) == [kind |-> kind, alert_id |-> id, theme |-> theme, nl |-> nl]
ResultLine(id, theme) == Line("result", id, theme, TRUE)

RECURSIVE LoadFrom(_, _, _)
LoadFrom(lines, i, processed) ==
    IF i > Len(lines) THEN processed
    ELSE CASE lines[i].kind = "blank" -> LoadFrom(lines, i + 1, processed)
           [] lines[i].kind = "malformed" -> LoadFrom(lines, i + 1, processed)
           [] lines[i].kind = "nonobj" -> processed
           [] OTHER -> LoadFrom(lines, i + 1, processed \cup {lines[i].alert_id})

\* A loader that finds no file (a faulty variant of load_processed_ids).
load_nothing(lines) == {}

\* ThemeClassifier._load_processed_ids: the set built from the lines of the file.
load_processed_ids(lines) == LoadFrom(lines, 1, {})

\* What the bytes of f.write(json.dumps(result) + '\n') leave in the file when
\* all of them, a proper prefix of the JSON text, or all but the newline arrive.
Written(result, cut) ==
    CASE cut = "all" -> ResultLine(result.alert_id, result.theme)
      [] cut = "nonewline" -> Line("result", result.alert_id, result.theme, FALSE)
      [] OTHER -> Line("malformed", NoId, "", FALSE)

\* Opening with 'a' and writing: the bytes follow the last byte of the file. When
\* the file does not end with a newline they continue its last line, and a JSON
\* text preceded by a JSON text or by a prefix of one is no JSON text.
AppendBytes(lines, w) ==
    IF lines # <<>> /\ ~lines[Len(lines)].nl
    THEN [lines EXCEPT ![Len(lines)] = Line("malformed", NoId, "", w.nl)]
    ELSE Append(lines, w)

\* A _save_result that writes its line before the lines of the file (a faulty
\* variant of save_result).
save_at_front(lines, result) == <<Written(result, "all")>> \o lines

\* A _save_result that opens the file with 'w' (a faulty variant of save_result).
save_truncating(lines, result) == <<Written(result, "all")>>

\* ThemeClassifier._save_result, when it returns.
save_result(lines, result) == AppendBytes(lines, Written(result, "all"))

\* ------------------------------------------------------------ Item Selector
RECURSIVE FirstScore(_, _, _)
FirstScore(scores, i, useValue) ==
    IF i > Len(scores) THEN Absent
    ELSE LET c == IF scores[i].comment.truthy \/ ~useValue
                  THEN scores[i].comment ELSE scores[i].value
         IN IF c.trim > MinCommentLen THEN c ELSE FirstScore(scores, i + 1, useValue)

\* run, lines 245-254: the comment the selector looks at.
RunComment(item) ==
    IF item.human_comment.truthy THEN item.human_comment
    ELSE FirstScore(item.feedback_scores, 1, FALSE)

\* A selector that accepts a comment of exactly the threshold length (a faulty variant).
EligibleAtThreshold(item) == RunComment(item).trim >= MinCommentLen

\* run, line 257.
Eligible(item) == RunComment(item).trim > MinCommentLen

\* items[:n]
Take(items, n) == SubSeq(items, 1, IF n < Len(items) THEN n ELSE Len(items))

\* run, lines 243-265: the eligible records, cut to the cap. lim is <<>> for
\* None and <<n>> for n; `if limit:` is false for None and for 0.
items_with_comments(data, lim) ==
    LET eligible == SelectSeq(data, Eligible)
    IN IF lim # <<>> /\ lim[1] # 0 THEN Take(eligible, lim[1]) ELSE eligible

\* A selector without the already-processed filter (a faulty variant of ToProcess).
ToProcessAll(data, lim, processed) == items_with_comments(data, lim)

\* run, lines 268-271.
ToProcess(data, lim, processed) ==
    LET NotProcessed(item) == item.alert_id \notin processed
    IN SelectSeq(items_with_comments(data, lim), NotProcessed)

\* ------------------------------------------------------------ Model Invoker
\* classify_item, lines 118-128: the comment sent to the model.
ClassifyComment(item) ==
    IF item.human_comment.truthy THEN item.human_comment
    ELSE FirstScore(item.feedback_scores, 1, TRUE)

\* What a call of classify_item comes to: called (generate_content was invoked),
\* raised (an exception left classify_item), ok (a result dict was returned, else
\* None) and the theme of the result.
Outcome(called, raised, ok, theme) ==
    [called |-> called, raised |-> raised, ok |-> ok, theme |-> theme]
Skipped == Outcome(FALSE, FALSE, FALSE, "")

\* classify_item, lines 206-210.
ValidateTheme(theme) == IF theme \in VALID_THEMES THEN theme ELSE "OTHER"

\* A classify_item that keeps the theme the model gave (a faulty variant).
ParseUnvalidated(resp) ==
    IF resp.kind = "json" THEN Outcome(TRUE, FALSE, TRUE, resp.theme)
    ELSE Outcome(TRUE, FALSE, FALSE, "")

\* A classify_item whose except clause misses the client's exception (a faulty variant).
ParseUncaught(resp) ==
    CASE resp.kind = "raise" -> Outcome(TRUE, TRUE, FALSE, "")
      [] resp.kind = "badjson" -> Outcome(TRUE, FALSE, FALSE, "")
      [] OTHER -> Outcome(TRUE, FALSE, TRUE, ValidateTheme(resp.theme))

\* A response that is a JSON object holding some of the five fields: data maps
\* the names of the fields it holds to their values.
ResponseFields == {"theme", "confidence", "reasoning", "missing_context", "trend_insight"}
RespObject(data) == [kind |-> "object", theme |-> "", data |-> data]

\* dict.get(key, default)
get(data, key, default) == IF key \in DOMAIN data THEN data[key] ELSE default

\* A result built with an empty string for every missing field (a faulty
\* variant of result_fields).
result_fields_blank(result_data) ==
    [f \in ResponseFields |->
        IF f = "theme" THEN ValidateTheme(get(result_data, f, ""))
        ELSE get(result_data, f, "")]

\* classify_item, lines 206-222: the fields of the result taken from the parsed
\* response (alert_id and processed_at are added beside them).
result_fields(result_data) ==
    [theme |-> ValidateTheme(get(result_data, "theme", "OTHER")),
     confidence |-> get(result_data, "confidence", "UNKNOWN"),
     reasoning |-> get(result_data, "reasoning", ""),
     missing_context |-> get(result_data, "missing_context", ""),
     trend_insight |-> get(result_data, "trend_insight", "")]

\* classify_item, lines 179-228, after the model was called with answer resp.
ParseResponse(resp) ==
    CASE resp.kind = "raise" -> Outcome(TRUE, FALSE, FALSE, "")
      [] resp.kind = "badjson" -> Outcome(TRUE, FALSE, FALSE, "")
      [] resp.kind = "object" ->
            Outcome(TRUE, FALSE, TRUE, result_fields(resp.data).theme)
                @@ [result |-> result_fields(resp.data)]
      [] OTHER -> Outcome(TRUE, FALSE, TRUE, ValidateTheme(resp.theme))

\* classify_item, lines 134-162: the extraction of the earlier assessment.
\* fields: what the four prompt fields hold after it ("N/A", "filled", or "partial"
\* when the exception came after some were set); raised: an exception other than
\* JSONDecodeError left the inner try (AttributeError of .get on a value that is
\* no dict, TypeError of ", ".join).
Extract(gen) ==
    CASE gen = "valid" -> [fields |-> "filled", raised |-> FALSE]
      [] gen = "badjson" -> [fields |-> "N/A", raised |-> FALSE]
      [] gen = "nonobj" -> [fields |-> "N/A", raised |-> TRUE]
      [] gen = "notmapping" -> [fields |-> "N/A", raised |-> TRUE]
      [] gen = "badgaps" -> [fields |-> "partial", raised |-> TRUE]
      [] OTHER -> [fields |-> "N/A", raised |-> FALSE]

\* classify_item: the whole call, reading processed_ids when it starts. An
\* exception of the extraction is caught by the outer except (lines 226-228),
\* which returns None before the model is called.
classify_item(item, processed) ==
    IF item.alert_id \in processed THEN Skipped
    ELSE IF ~ClassifyComment(item).truthy \/ ClassifyComment(item).trim < MinCommentLen
         THEN Skipped
         ELSE IF Extract(item.gen).raised THEN Skipped
         ELSE ParseResponse(item.resp)

\* -------------------------------------------------------------------- state
VARIABLES
    feedback_data,    \* the records of the input file (json.load of --input)
    limit,            \* --limit: <<>> for None, <<n>> for n
    num_workers,      \* --workers
    output_file,      \* the lines of the NDJSON output file
    pc,               \* "down", "ready" (constructed), "collecting" (in the
                      \* as_completed loop), "returned", "raised"; in main:
                      \* "exit1" (sys.exit(1)), "trended", "trendraised";
                      \* in fetch_traces: "linking", "linked"
    processed_ids,    \* self.processed_ids
    to_process,       \* the submitted records, in submission order
    futures,          \* per submitted record: st in "queued", "running" (in
                      \* classify_item), "done", "saving" (in _save_result),
                      \* "collected"; out: the Outcome
    success_count,
    completed_count,
    runs,             \* processes started so far
    invoked,          \* alert_ids generate_content was called for, this process
    appended,         \* results whose _save_result returned, this process, in order
    store0,           \* the output file as this process found it
    progress,         \* the progress reports run has logged, in order
    env,              \* main: is there a project id, does the input file exist
    trend_file,       \* the JSON texts global_trends.json holds, <<>> without one
    trends_result,    \* the call of generate_global_trends of this process
    feedback_file     \* fetch_traces: the feedback scores create_linked_data reads

vars ==
    << feedback_data, limit, num_workers, output_file, pc, processed_ids, to_process,
       futures, success_count, completed_count, runs, invoked, appended, store0,
       progress, env, trend_file, trends_result, feedback_file >>

config == << feedback_data, limit, num_workers, feedback_file >>
\* What main holds outside ThemeClassifier.run.
outside_run == << env, trend_file, trends_result >>
\* run, lines 275-299: its counters and what it logged of them.
counters == << success_count, completed_count, progress >>

Inputs == { d \in [1..MaxItems -> UNION { Profiles(i) : i \in 1..MaxItems }] :
              \A i \in 1..MaxItems : d[i].alert_id = i }
Limits == {<<>>} \cup { <<n>> : n \in 0..(MaxItems - 1) }

\* The memory of a process that is not running.
Down ==
    /\ pc' = "down"
    /\ processed_ids' = {}
    /\ to_process' = <<>>
    /\ futures' = <<>>
    /\ success_count' = 0
    /\ completed_count' = 0
    /\ progress' = <<>>
    /\ invoked' = {}
    /\ appended' = <<>>
    /\ store0' = <<>>

Range(seq) == { seq[i] : i \in 1..Len(seq) }

\* main, lines 421-431: what the two checks at the start of main look at.
Env(project_id, input_exists) ==
    [project_id |-> project_id, input_exists |-> input_exists]
EnvOk == Env(TRUE, TRUE)

\* generate_global_trends was not called.
NoCall ==
    [called |-> FALSE, input |-> <<>>, resp |-> "", write |-> "", ret |-> "",
     raised |-> FALSE, before |-> <<>>]

\* create_linked_data writes one record per alert id, sorted by id; the output
\* file does not exist before the first process.
Init ==
    /\ feedback_data \in Inputs
    /\ limit \in Limits
    /\ num_workers \in 1..MaxWorkers
    /\ output_file = <<>>
    /\ pc = "down"
    /\ processed_ids = {}
    /\ to_process = <<>>
    /\ futures = <<>>
    /\ success_count = 0
    /\ completed_count = 0
    /\ progress = <<>>
    /\ runs = 0
    /\ invoked = {}
    /\ appended = <<>>
    /\ store0 = <<>>
    /\ env = EnvOk
    /\ trend_file = <<>>
    /\ trends_result = NoCall
    /\ feedback_file = <<>>

\* main, line 439: ThemeClassifier.__init__ loads the processed ids.
Construct ==
    /\ pc = "down"
    /\ runs < MaxRuns
    /\ runs' = runs + 1
    /\ pc' = "ready"
    /\ processed_ids' = load_processed_ids(output_file)
    /\ store0' = output_file
    /\ UNCHANGED << config, outside_run, output_file, to_process, futures, counters, invoked,
                    appended >>

\* run, lines 243-284: select the records and submit one future for each.
Submit ==
    /\ pc = "ready"
    /\ pc' = "collecting"
    /\ to_process' = ToProcess(feedback_data, limit, processed_ids)
    /\ futures' = [i \in 1..Len(to_process') |-> [st |-> "queued", out |-> Skipped]]
    /\ success_count' = 0
    /\ completed_count' = 0
    /\ progress' = <<>>
    /\ UNCHANGED << config, outside_run, output_file, processed_ids, runs, invoked, appended,
                    store0 >>

Running == { i \in DOMAIN futures : futures[i].st = "running" }
Queued == { i \in DOMAIN futures : futures[i].st = "queued" }

\* A pool without a bound on its threads (a faulty variant of PoolHasIdleThread).
PoolUnbounded == TRUE

\* ThreadPoolExecutor(max_workers=num_workers): a queued call starts when fewer
\* than num_workers threads are busy.
PoolHasIdleThread == Cardinality(Running) < num_workers

\* A pool thread takes the oldest queued call and enters classify_item: the check
\* of processed_ids, the comment guard and, past them, the call of the model. The
\* pool keeps working while run unwinds from an exception (shutdown(wait=True)).
WorkerStart(i) ==
    /\ pc \in {"collecting", "raised"}
    /\ i \in Queued
    /\ \A j \in Queued : i <= j
    /\ PoolHasIdleThread
    /\ LET out == classify_item(to_process[i], processed_ids)
       IN /\ futures' = [futures EXCEPT ![i] = [st |-> "running", out |-> out]]
          /\ invoked' = IF out.called THEN invoked \cup {to_process[i].alert_id}
                        ELSE invoked
    /\ UNCHANGED << config, outside_run, output_file, pc, processed_ids, to_process, counters,
                    runs, appended, store0 >>

\* A classify_item that adds the id of its result to processed_ids itself (a
\* faulty variant of WorkerFinish).
WorkerFinishMarksProcessed(i) ==
    /\ pc \in {"collecting", "raised"}
    /\ i \in Running
    /\ ~(futures[i].out.called /\ to_process[i].resp.kind = "stall")
    /\ futures' = [futures EXCEPT ![i].st = "done"]
    /\ processed_ids' = IF futures[i].out.ok
                         THEN processed_ids \cup {to_process[i].alert_id}
                         ELSE processed_ids
    /\ UNCHANGED << config, outside_run, output_file, pc, to_process, counters,
                    runs, invoked, appended, store0 >>

\* classify_item returns (or raises): the future is finished. generate_content
\* is called without a timeout: a call the service never answers never returns.
WorkerFinish(i) ==
    /\ pc \in {"collecting", "raised"}
    /\ i \in Running
    /\ ~(futures[i].out.called /\ to_process[i].resp.kind = "stall")
    /\ futures' = [futures EXCEPT ![i].st = "done"]
    /\ UNCHANGED << config, outside_run, output_file, pc, processed_ids, to_process, counters,
                    runs, invoked, appended, store0 >>

ResultOf(i) == [alert_id |-> to_process[i].alert_id, theme |-> futures[i].out.theme]

bar_length == 30

\* _get_progress_bar, lines 364-371: the number of "=" of the bar.
get_progress_bar(completed, total) ==
    IF total = 0 THEN bar_length ELSE (completed * bar_length) \div total

\* run, lines 297-299: the progress line logged at the end of a loop turn, the
\* percentage in whole percents.
Report(completed, total) ==
    [completed |-> completed, total |-> total,
     pct |-> (completed * 100) \div total,
     bar |-> get_progress_bar(completed, total)]

\* A loop that counts a completion only when it brought a result (a faulty
\* variant of Collect).
CollectCountsResults(i) ==
    /\ pc = "collecting"
    /\ i \in DOMAIN futures
    /\ futures[i].st = "done"
    /\ futures' = [futures EXCEPT ![i].st = "collected"]
    /\ IF futures[i].out.ok
       THEN /\ completed_count' = completed_count + 1
            /\ output_file' = save_result(output_file, ResultOf(i))
            /\ success_count' = success_count + 1
            /\ processed_ids' = processed_ids \cup {to_process[i].alert_id}
            /\ appended' = Append(appended, ResultOf(i))
       ELSE UNCHANGED << completed_count, output_file, success_count, processed_ids,
                         appended >>
    /\ progress' = Append(progress, Report(completed_count', Len(to_process)))
    /\ UNCHANGED << config, outside_run, pc, to_process, runs, invoked, store0 >>

\* A loop that appends the result and forgets to add its id to processed_ids
\* (a faulty variant of Collect).
CollectForgetsId(i) ==
    /\ pc = "collecting"
    /\ i \in DOMAIN futures
    /\ futures[i].st = "done"
    /\ completed_count' = completed_count + 1
    /\ progress' = Append(progress, Report(completed_count', Len(to_process)))
    /\ futures' = [futures EXCEPT ![i].st = "collected"]
    /\ IF futures[i].out.ok
       THEN /\ output_file' = save_result(output_file, ResultOf(i))
            /\ success_count' = success_count + 1
            /\ appended' = Append(appended, ResultOf(i))
       ELSE UNCHANGED << output_file, success_count, appended >>
    /\ UNCHANGED << config, outside_run, pc, processed_ids, to_process, runs, invoked,
                    store0 >>

\* A loop that counts every completed future as a success (a faulty variant of
\* Collect).
CollectCountsAll(i) ==
    /\ pc = "collecting"
    /\ i \in DOMAIN futures
    /\ futures[i].st = "done"
    /\ completed_count' = completed_count + 1
    /\ progress' = Append(progress, Report(completed_count', Len(to_process)))
    /\ success_count' = success_count + 1
    /\ futures' = [futures EXCEPT ![i].st = "collected"]
    /\ IF futures[i].out.ok
       THEN /\ output_file' = save_result(output_file, ResultOf(i))
            /\ processed_ids' = processed_ids \cup {to_process[i].alert_id}
            /\ appended' = Append(appended, ResultOf(i))
       ELSE UNCHANGED << output_file, processed_ids, appended >>
    /\ UNCHANGED << config, outside_run, pc, to_process, runs, invoked, store0 >>

\* run, lines 287-299: one turn of the as_completed loop for a finished future,
\* with _save_result returning.
Collect(i) ==
    /\ pc = "collecting"
    /\ i \in DOMAIN futures
    /\ futures[i].st = "done"
    /\ completed_count' = completed_count + 1
    /\ progress' = IF futures[i].out.raised THEN progress
                 ELSE Append(progress, Report(completed_count', Len(to_process)))
    /\ futures' = [futures EXCEPT ![i].st = "collected"]
    /\ IF futures[i].out.raised
       THEN /\ pc' = "raised"
            /\ UNCHANGED << output_file, success_count, processed_ids, appended >>
       ELSE IF futures[i].out.ok
       THEN /\ output_file' = save_result(output_file, ResultOf(i))
            /\ success_count' = success_count + 1
            /\ processed_ids' = processed_ids \cup {to_process[i].alert_id}
            /\ appended' = Append(appended, ResultOf(i))
            /\ pc' = pc
       ELSE UNCHANGED << output_file, success_count, processed_ids, appended, pc >>
    /\ UNCHANGED << config, outside_run, to_process, runs, invoked, store0 >>

Cuts == {"none", "partial", "nonewline"}

\* The bytes a failed or interrupted write leaves behind.
Torn(lines, result, cut) ==
    IF cut = "none" THEN lines ELSE AppendBytes(lines, Written(result, cut))

\* An as_completed loop that logs a failed append and goes on (a faulty variant
\* of CollectSaveFails).
CollectSaveSwallowed(i) ==
    /\ pc = "collecting"
    /\ i \in DOMAIN futures
    /\ futures[i].st = "done"
    /\ futures[i].out.ok
    /\ completed_count' = completed_count + 1
    /\ progress' = Append(progress, Report(completed_count', Len(to_process)))
    /\ futures' = [futures EXCEPT ![i].st = "collected"]
    /\ \E cut \in Cuts : output_file' = Torn(output_file, ResultOf(i), cut)
    /\ UNCHANGED << config, outside_run, pc, to_process, processed_ids, success_count, runs,
                    invoked, appended, store0 >>

\* A loop that marks the record as processed and counts it before the append is
\* known to have returned (a faulty variant of CollectSaveFails).
CollectSaveFailsMarked(i) ==
    /\ pc = "collecting"
    /\ i \in DOMAIN futures
    /\ futures[i].st = "done"
    /\ futures[i].out.ok
    /\ completed_count' = completed_count + 1
    /\ progress' = progress
    /\ futures' = [futures EXCEPT ![i].st = "collected"]
    /\ \E cut \in Cuts : output_file' = Torn(output_file, ResultOf(i), cut)
    /\ processed_ids' = processed_ids \cup {to_process[i].alert_id}
    /\ success_count' = success_count + 1
    /\ pc' = "raised"
    /\ UNCHANGED << config, outside_run, to_process, runs, invoked, appended, store0 >>

\* run, line 292, with _save_result raising (open or write fails, lines 95-97):
\* nothing handles the exception in run, so it leaves run.
CollectSaveFails(i) ==
    /\ pc = "collecting"
    /\ i \in DOMAIN futures
    /\ futures[i].st = "done"
    /\ futures[i].out.ok
    /\ completed_count' = completed_count + 1
    /\ progress' = progress
    /\ futures' = [futures EXCEPT ![i].st = "collected"]
    /\ \E cut \in Cuts : output_file' = Torn(output_file, ResultOf(i), cut)
    /\ pc' = "raised"
    /\ UNCHANGED << config, outside_run, to_process, processed_ids, success_count, runs, invoked,
                    appended, store0 >>

\* A loop that stops at the first future without a result (a faulty variant of
\* Return).
ReturnAtFirstNone ==
    /\ pc = "collecting"
    /\ \/ \A i \in DOMAIN futures : futures[i].st = "collected"
       \/ \E i \in DOMAIN futures : futures[i].st = "collected" /\ ~futures[i].out.ok
    /\ pc' = "returned"
    /\ UNCHANGED << config, outside_run, output_file, processed_ids, to_process,
                    futures, counters, runs, invoked, appended, store0 >>

\* run returns success_count once every future was collected.
Return ==
    /\ pc = "collecting"
    /\ \A i \in DOMAIN futures : futures[i].st = "collected"
    /\ pc' = "returned"
    /\ UNCHANGED << config, outside_run, output_file, processed_ids, to_process, futures, counters,
                    runs, invoked, appended, store0 >>

\* The process ends: after main's last line, or with the exception once the pool
\* has drained.
Exit ==
    /\ \/ pc = "returned"
       \/ pc = "raised" /\ Running = {} /\ Queued = {}
    /\ Down
    /\ UNCHANGED << config, outside_run, output_file, runs >>

\* The process is killed between two steps.
Crash ==
    /\ pc \in {"ready", "collecting"}
    /\ Down
    /\ UNCHANGED << config, outside_run, output_file, runs >>

\* The process is killed inside the write of _save_result.
CrashInWrite(i) ==
    /\ pc = "collecting"
    /\ i \in DOMAIN futures
    /\ futures[i].st = "done"
    /\ futures[i].out.ok
    /\ \E cut \in Cuts \ {"none"} : output_file' = Torn(output_file, ResultOf(i), cut)
    /\ Down
    /\ UNCHANGED << config, outside_run, runs >>

Next ==
    \/ Construct
    \/ Submit
    \/ \E i \in 1..MaxItems : WorkerStart(i)
    \/ \E i \in 1..MaxItems : WorkerFinish(i)
    \/ \E i \in 1..MaxItems : Collect(i)
    \/ \E i \in 1..MaxItems : CollectSaveFails(i)
    \/ Return
    \/ Exit
    \/ Crash
    \/ \E i \in 1..MaxItems : CrashInWrite(i)

Spec == Init /\ [][Next]_vars

\* ------------------------------------------- the append, write by write
\* _save_result, line 92, seen from another thread: the first bytes of the JSON
\* text are in the file, the rest and the newline are not yet.
BeginWrite(lines, result) ==
    AppendBytes(lines, Line("writing", result.alert_id, result.theme, FALSE))

\* The rest of the text and the newline arrive: behind the first bytes they
\* complete the record, behind anything else they are no JSON text.
FinishWrite(lines, result) ==
    IF /\ lines # <<>>
       /\ lines[Len(lines)] = Line("writing", result.alert_id, result.theme, FALSE)
    THEN [lines EXCEPT ![Len(lines)] = ResultLine(result.alert_id, result.theme)]
    ELSE AppendBytes(lines, Line("malformed", NoId, "", TRUE))

Saving == { i \in DOMAIN futures : futures[i].st = "saving" }

\* A _save_result called by whichever thread finished a call, the others not
\* waiting for it (a faulty variant of LoopIdle).
LoopNeverWaits == TRUE

\* run, lines 287-299: the as_completed loop is one thread, the only caller of
\* _save_result; it takes the next finished future when its turn for the one
\* before is over.
LoopIdle == Saving = {}

\* run, lines 288-292: the loop takes a finished future with a result and
\* enters _save_result.
SaveBegin(i) ==
    /\ pc = "collecting"
    /\ LoopIdle
    /\ i \in DOMAIN futures
    /\ futures[i].st = "done"
    /\ futures[i].out.ok
    /\ completed_count' = completed_count + 1
    /\ progress' = progress
    /\ futures' = [futures EXCEPT ![i].st = "saving"]
    /\ output_file' = BeginWrite(output_file, ResultOf(i))
    /\ UNCHANGED << config, outside_run, pc, to_process, processed_ids,
                    success_count, runs, invoked, appended, store0 >>

\* run, lines 292-294: _save_result returns and the loop counts the result.
SaveEnd(i) ==
    /\ pc = "collecting"
    /\ i \in Saving
    /\ futures' = [futures EXCEPT ![i].st = "collected"]
    /\ output_file' = FinishWrite(output_file, ResultOf(i))
    /\ success_count' = success_count + 1
    /\ processed_ids' = processed_ids \cup {to_process[i].alert_id}
    /\ appended' = Append(appended, ResultOf(i))
    /\ progress' = Append(progress, Report(completed_count, Len(to_process)))
    /\ UNCHANGED << config, outside_run, pc, to_process, completed_count, runs,
                    invoked, store0 >>

\* run, lines 288-291: the loop takes a finished future without a result.
CollectNone(i) ==
    /\ LoopIdle
    /\ i \in DOMAIN futures
    /\ ~futures[i].out.ok
    /\ Collect(i)

NextSave ==
    \/ Construct
    \/ Submit
    \/ \E i \in 1..MaxItems : WorkerStart(i)
    \/ \E i \in 1..MaxItems : WorkerFinish(i)
    \/ \E i \in 1..MaxItems : SaveBegin(i)
    \/ \E i \in 1..MaxItems : SaveEnd(i)
    \/ \E i \in 1..MaxItems : CollectNone(i)
    \/ Return
    \/ Exit

\* Processes that are neither killed nor hit by a failing write, the append
\* taken as two writes.
SpecSave == Init /\ [][NextSave]_vars

\* ------------------------------------------- a model call that never returns
\* Inputs in which at most one record's model call is never answered.
StallInputs ==
    { d \in [1..MaxItems ->
                UNION { Profiles(i) \cup {Record(i, MinCommentLen + 1, <<>>, RespStall)} :
                          i \in 1..MaxItems }] :
        /\ \A i \in 1..MaxItems : d[i].alert_id = i
        /\ Cardinality({ i \in 1..MaxItems : d[i].resp = RespStall }) <= 1 }

InitStall ==
    /\ feedback_data \in StallInputs
    /\ limit = <<>>
    /\ num_workers \in 1..MaxWorkers
    /\ output_file = <<>>
    /\ pc = "down"
    /\ processed_ids = {}
    /\ to_process = <<>>
    /\ futures = <<>>
    /\ success_count = 0
    /\ completed_count = 0
    /\ progress = <<>>
    /\ runs = 0
    /\ invoked = {}
    /\ appended = <<>>
    /\ store0 = <<>>
    /\ env = EnvOk
    /\ trend_file = <<>>
    /\ trends_result = NoCall
    /\ feedback_file = <<>>

NextStall ==
    \/ Construct
    \/ Submit
    \/ \E i \in 1..MaxItems : WorkerStart(i)
    \/ \E i \in 1..MaxItems : WorkerFinish(i)
    \/ \E i \in 1..MaxItems : Collect(i)
    \/ Return

\* One process, never killed, its writes never failing; the pool threads and
\* the loop are scheduled: a step that can be taken is taken in the end.
SpecStall == InitStall /\ [][NextStall]_vars /\ WF_vars(NextStall)

\* --------------------------------------- classify_item called on any record
\* Records as a caller other than run may pass them: not filtered by the
\* selector, with every kind of generation observation.
CallRecords(id) ==
    Profiles(id)
        \cup { Record(id, MinCommentLen - 1, <<>>, RespTheme("INSUFFICIENT_EVIDENCE")) }
        \cup { WithGen(Record(id, MinCommentLen + 1, <<>>,
                               RespTheme("AI_VERDICT_INCONSISTENCY")), g) :
                 g \in GenKinds \ {"none"} }

CallInputs ==
    { d \in [1..MaxItems -> UNION { CallRecords(i) : i \in 1..MaxItems }] :
        \A i \in 1..MaxItems : d[i].alert_id = i }

\* A constructed ThemeClassifier, on no output file or on one that holds the
\* result of record 1; every record was submitted to classify_item.
InitCall ==
    /\ feedback_data \in CallInputs
    /\ limit = <<>>
    /\ num_workers = MaxWorkers
    /\ output_file \in {<<>>, <<ResultLine(1, "OTHER")>>}
    /\ pc = "collecting"
    /\ processed_ids = load_processed_ids(output_file)
    /\ to_process = feedback_data
    /\ futures = [i \in 1..Len(feedback_data) |-> [st |-> "queued", out |-> Skipped]]
    /\ success_count = 0
    /\ completed_count = 0
    /\ progress = <<>>
    /\ runs = 1
    /\ invoked = {}
    /\ appended = <<>>
    /\ store0 = output_file
    /\ env = EnvOk
    /\ trend_file = <<>>
    /\ trends_result = NoCall
    /\ feedback_file = <<>>

NextCall ==
    \/ \E i \in 1..MaxItems : WorkerStart(i)
    \/ \E i \in 1..MaxItems : WorkerFinish(i)
    \/ \E i \in 1..MaxItems : Collect(i)
    \/ Return

\* classify_item called on records of every kind, the loop of run collecting.
SpecCall == InitCall /\ [][NextCall]_vars

\* ------------------------------------- main: its checks and the trend stage
\* A main that goes on without an input file or a project id (a faulty variant
\* of StartupFails).
StartupUnchecked(project_id, input_exists) ==
    /\ pc = "down"
    /\ runs < MaxRuns
    /\ ~(project_id /\ input_exists)
    /\ runs' = runs + 1
    /\ env' = Env(project_id, input_exists)
    /\ pc' = "ready"
    /\ processed_ids' = load_processed_ids(output_file)
    /\ store0' = output_file
    /\ UNCHANGED << config, output_file, to_process, futures, counters, invoked,
                    appended, trend_file, trends_result >>

\* main, lines 421-431: without a project id, or without the input file, main
\* logs an error and calls sys.exit(1).
StartupFails(project_id, input_exists) ==
    /\ pc = "down"
    /\ runs < MaxRuns
    /\ ~(project_id /\ input_exists)
    /\ runs' = runs + 1
    /\ env' = Env(project_id, input_exists)
    /\ pc' = "exit1"
    /\ UNCHANGED << config, output_file, processed_ids, to_process, futures,
                    counters, invoked, appended, store0, trend_file,
                    trends_result >>

\* One JSON text in global_trends.json: the answer of the model to the call of
\* process n, all of it or a prefix of it.
TrendObject(n, whole) == [run |-> n, whole |-> whole]

\* A trend file opened with 'a' (a faulty variant of write_trends).
append_trends(file, obj) == Append(file, obj)

\* generate_global_trends, lines 351-353: open(global_trends_file, 'w') and
\* json.dump, when both succeed.
write_trends(file, obj) == <<obj>>

\* The answers of the model to the trend request, and the ways the write of the
\* trend file goes: well, open fails, the write fails right after the file was
\* truncated, the write fails after a part of the text.
TrendResps == {"json", "badjson", "raise"}
TrendWrites == {"ok", "openfails", "truncated", "partial"}

TrendsReturn(file, ret, raised) == [file |-> file, ret |-> ret, raised |-> raised]

\* A generate_global_trends whose try block ends before the write of the file
\* (a faulty variant).
generate_global_trends_unguarded_write(file, n, resp, write) ==
    IF resp # "json" THEN TrendsReturn(file, "fallback", FALSE)
    ELSE CASE write = "ok" ->
                TrendsReturn(write_trends(file, TrendObject(n, TRUE)), "trends", FALSE)
           [] write = "openfails" -> TrendsReturn(file, "", TRUE)
           [] write = "truncated" -> TrendsReturn(<<>>, "", TRUE)
           [] OTHER -> TrendsReturn(<<TrendObject(n, FALSE)>>, "", TRUE)

\* generate_global_trends, lines 319-362: the model call, json.loads, the write
\* of the file, and the except clause around the three. ret is "trends" for the
\* parsed answer and "fallback" for
\* {"trends": [], "summary": "Error generating trends."}.
generate_global_trends(file, n, resp, write) ==
    IF resp # "json" THEN TrendsReturn(file, "fallback", FALSE)
    ELSE CASE write = "ok" ->
                TrendsReturn(write_trends(file, TrendObject(n, TRUE)), "trends", FALSE)
           [] write = "openfails" -> TrendsReturn(file, "fallback", FALSE)
           [] write = "truncated" -> TrendsReturn(<<>>, "fallback", FALSE)
           [] OTHER -> TrendsReturn(<<TrendObject(n, FALSE)>>, "fallback", FALSE)

\* main, lines 451-461: every non-blank line of the output file goes through
\* json.loads and res['alert_id'].
Loadable(lines) == \A i \in 1..Len(lines) : lines[i].kind \in {"result", "blank"}

\* A main that finds no output file to read back (a faulty variant of
\* all_results).
results_unread(lines) == <<>>

\* main, lines 450-455: the results read back from the output file, one per
\* non-blank line, in the order of the lines.
all_results(lines) ==
    LET NonBlank(l) == l.kind # "blank"
        read == SelectSeq(lines, NonBlank)
    IN [k \in 1..Len(read) |-> [alert_id |-> read[k].alert_id, theme |-> read[k].theme]]

\* main, lines 448-461, with --global-trends: a line of the output file that
\* is no JSON object with alert_id raises, and nothing in main handles it.
TrendsReloadFails ==
    /\ pc = "returned"
    /\ ~Loadable(output_file)
    /\ pc' = "trendraised"
    /\ UNCHANGED << config, outside_run, output_file, processed_ids, to_process,
                    futures, counters, runs, invoked, appended, store0 >>

\* main, lines 448-463, with --global-trends: the results are read back and
\* generate_global_trends is called.
Aggregate(resp, write) ==
    /\ pc = "returned"
    /\ Loadable(output_file)
    /\ LET g == generate_global_trends(trend_file, runs, resp, write)
       IN /\ trend_file' = g.file
          /\ trends_result' =
                [called |-> TRUE, input |-> all_results(output_file), resp |-> resp,
                 write |-> write, ret |-> g.ret, raised |-> g.raised,
                 before |-> trend_file]
          /\ pc' = IF g.raised THEN "trendraised" ELSE "trended"
    /\ UNCHANGED << config, env, output_file, processed_ids, to_process, futures,
                    counters, runs, invoked, appended, store0 >>

\* The process ends: sys.exit(1), main's last line after the trend stage, or the
\* exception of the trend stage.
ExitMain ==
    /\ pc \in {"exit1", "trended", "trendraised"}
    /\ Down
    /\ env' = EnvOk
    /\ trends_result' = NoCall
    /\ UNCHANGED << config, output_file, runs, trend_file >>

NextMain ==
    \/ Next
    \/ \E project_id, input_exists \in BOOLEAN : StartupFails(project_id, input_exists)
    \/ TrendsReloadFails
    \/ \E resp \in TrendResps, write \in TrendWrites : Aggregate(resp, write)
    \/ ExitMain

\* main as a whole, with and without --global-trends.
SpecMain == Init /\ [][NextMain]_vars

\* ------------------------------------------------- the loader on any file
\* A hand-made output file: any lines, the loader's every case among them.
FileLines ==
    { ResultLine(id, "OTHER") : id \in 1..MaxItems }
        \cup { Line("noid", NoId, "OTHER", TRUE), Line("malformed", NoId, "", TRUE),
               Line("nonobj", NoId, "", TRUE), Line("blank", NoId, "", TRUE) }
Files == UNION { [1..n -> FileLines] : n \in 0..MaxLines }

\* Input records, some without alert_id (item.get("alert_id") is None).
LooseInputs ==
    { d \in [1..MaxItems -> UNION { Profiles(i) : i \in 0..MaxItems }] :
        \A i \in 1..MaxItems :
            /\ d[i].alert_id \in {NoId, i}
            /\ d[i].human_comment.trim > MinCommentLen
            /\ d[i].resp = RespTheme("AUTHORIZED_USER_ACTIVITY") }

InitLoad ==
    /\ feedback_data \in LooseInputs
    /\ limit = <<>>
    /\ num_workers = 1
    /\ output_file \in Files
    /\ pc = "down"
    /\ processed_ids = {}
    /\ to_process = <<>>
    /\ futures = <<>>
    /\ success_count = 0
    /\ completed_count = 0
    /\ progress = <<>>
    /\ runs = 0
    /\ invoked = {}
    /\ appended = <<>>
    /\ store0 = <<>>
    /\ env = EnvOk
    /\ trend_file = <<>>
    /\ trends_result = NoCall
    /\ feedback_file = <<>>

NextLoad ==
    \/ Construct
    \/ Submit

\* A process constructed on a hand-made output file, up to the submission.
SpecLoad == InitLoad /\ [][NextLoad]_vars

\* =================================================================== claims
\* The lines of a file that are well-formed results, and their ids.
ResultLines(lines) == { i \in 1..Len(lines) : lines[i].kind = "result" }
ResultIds(lines) == { lines[i].alert_id : i \in ResultLines(lines) }
\* The well-formed result lines of a file, as (alert_id, theme) records.
Results(lines) ==
    { [alert_id |-> lines[i].alert_id, theme |-> lines[i].theme] :
        i \in ResultLines(lines) }
Submitted == DOMAIN futures
Started == { i \in Submitted : futures[i].st # "queued" }
Collected == { i \in Submitted : futures[i].st = "collected" }
InRun == pc \in {"collecting", "returned", "raised"}

\* C1: in every state of every run and re-run on one output file, interrupted
\* anywhere, no two result lines of the file carry the same alert_id.
C1_OneResultPerId ==
    \A i, j \in ResultLines(output_file) :
        output_file[i].alert_id = output_file[j].alert_id => i = j

\* C1 witness: a re-run on a file that already held results has returned after
\* appending further results.
C1_Witness ==
    /\ pc = "returned"
    /\ runs >= 2
    /\ ResultIds(store0) # {}
    /\ appended # <<>>

\* What one uninterrupted run on an empty output file stores: the result of
\* every record under the cap whose model call yields one.
UninterruptedResults ==
    { [alert_id |-> item.alert_id, theme |-> classify_item(item, {}).theme] :
        item \in { r \in Range(items_with_comments(feedback_data, limit)) :
                     classify_item(r, {}).ok } }

\* C2: with the deterministic stub, when a run has returned, whatever runs were
\* interrupted before it on the same file, the results in the file are those of
\* one uninterrupted run.
C2_ResumeEqualsUninterrupted ==
    pc = "returned" => Results(output_file) = UninterruptedResults

\* C3: every result returned by classify_item and every result line of the file
\* has a theme of VALID_THEMES; a model answer with a theme outside the set
\* yields a result with theme OTHER, which the loop appends when it collects it.
C3_ThemeClosed ==
    /\ \A i \in ResultLines(output_file) : output_file[i].theme \in VALID_THEMES
    /\ \A i \in Started :
        /\ futures[i].out.ok => futures[i].out.theme \in VALID_THEMES
        /\ ( /\ futures[i].out.called
             /\ to_process[i].resp.kind = "json"
             /\ to_process[i].resp.theme \notin VALID_THEMES )
           => /\ futures[i].out.ok
              /\ futures[i].out.theme = "OTHER"
              /\ (i \in Collected /\ pc # "raised" => ResultOf(i) \in Range(appended))

\* C3 witness: the file holds an OTHER line for a record whose model answer
\* carried a theme outside VALID_THEMES.
C3_Witness ==
    \E i \in Collected :
        /\ to_process[i].resp.theme = "NOT_A_REAL_THEME"
        /\ [alert_id |-> to_process[i].alert_id, theme |-> "OTHER"] \in Results(output_file)

ModelFails(i) == to_process[i].resp.kind \in {"raise", "badjson"}

\* C4: a model call that fails (exception, malformed JSON) makes classify_item
\* return None, no exception reaches the loop, the run is left by an exception
\* only when an append failed, and when run returns every submitted record whose
\* model call succeeded has its result appended.
C4_FailureIsolated ==
    /\ \A i \in Started :
        futures[i].out.called /\ ModelFails(i)
            => ~futures[i].out.ok /\ ~futures[i].out.raised
    /\ pc = "raised" =>
        \E i \in Collected : futures[i].out.ok /\ ResultOf(i) \notin Range(appended)
    /\ pc = "returned" =>
        \A i \in Submitted :
            ~ModelFails(i) => futures[i].out.ok /\ ResultOf(i) \in Range(appended)

\* C4 witness: a run has returned in which one model call raised and another
\* record's result was appended.
C4_Witness ==
    /\ pc = "returned"
    /\ \E i, j \in Collected :
        /\ to_process[i].resp.kind = "raise"
        /\ futures[i].out.called
        /\ futures[j].out.ok
        /\ ResultOf(j) \in Range(appended)

\* A record with a short comment and no score text to fall back on.
ShortNoFallback(item) ==
    /\ item.human_comment.trim <= MinCommentLen
    /\ \A k \in 1..Len(item.feedback_scores) :
        /\ item.feedback_scores[k].comment.trim <= MinCommentLen
        /\ item.feedback_scores[k].value.trim <= MinCommentLen

\* The record at position k is not cut off by the cap: no cap is in force
\* (None or 0), or fewer eligible records than the cap stand before it.
UnderCap(k) ==
    \/ limit = <<>>
    \/ limit[1] = 0
    \/ Cardinality({ j \in 1..(k - 1) : Eligible(feedback_data[j]) }) < limit[1]

\* C5 as stated: a record with a comment of trimmed length <= 10 and no
\* qualifying fallback is never submitted and never reaches the model; a record
\* not yet processed whose primary comment has trimmed length 11 is submitted.
C5_Original ==
    InRun => \A k \in 1..Len(feedback_data) :
        /\ ShortNoFallback(feedback_data[k]) =>
            /\ feedback_data[k] \notin Range(to_process)
            /\ feedback_data[k].alert_id \notin invoked
        /\ ( /\ feedback_data[k].human_comment.trim = MinCommentLen + 1
             /\ feedback_data[k].alert_id \notin ResultIds(store0) )
           => feedback_data[k] \in Range(to_process)

\* C5 amended: as C5, the record of length 11 being submitted when the cap does
\* not cut it off.
C5_EligibilityFilter ==
    InRun => \A k \in 1..Len(feedback_data) :
        /\ ShortNoFallback(feedback_data[k]) =>
            /\ feedback_data[k] \notin Range(to_process)
            /\ feedback_data[k].alert_id \notin invoked
        /\ ( /\ feedback_data[k].human_comment.trim = MinCommentLen + 1
             /\ feedback_data[k].alert_id \notin ResultIds(store0)
             /\ UnderCap(k) )
           => feedback_data[k] \in Range(to_process)

\* C5 witness: of two records, the one with a comment of length 10 was left out
\* and the one with a comment of length 11 was submitted and sent to the model.
C5_Witness ==
    /\ pc = "collecting"
    /\ \E j, k \in 1..Len(feedback_data) :
        /\ feedback_data[j].human_comment.trim = MinCommentLen
        /\ feedback_data[j] \notin Range(to_process)
        /\ feedback_data[k].human_comment.trim = MinCommentLen + 1
        /\ feedback_data[k] \in Range(to_process)
        /\ feedback_data[k].alert_id \in invoked

\* C6: a record whose alert_id stands in a result line of the output file when
\* the process starts is not submitted, no model call is made for it and no line
\* is appended for its id in that run.
C6_ProcessedExcluded ==
    InRun => \A k \in 1..Len(feedback_data) :
        feedback_data[k].alert_id \in ResultIds(store0) =>
            /\ feedback_data[k] \notin Range(to_process)
            /\ feedback_data[k].alert_id \notin invoked
            /\ \A r \in Range(appended) : r.alert_id # feedback_data[k].alert_id

\* C6 witness: a run on a file that held a record's result has returned, having
\* appended the result of another record.
C6_Witness ==
    /\ pc = "returned"
    /\ appended # <<>>
    /\ \E k \in 1..Len(feedback_data) : feedback_data[k].alert_id \in ResultIds(store0)

\* C7: at every point of a run, so wherever the process is killed, each result
\* whose append has returned is a line of the output file, the loader of the next
\* process recovers its id from that file, and the next run does not submit its
\* record again.
C7_DurableAfterCrash ==
    \A r \in Range(appended) :
        /\ r \in Results(output_file)
        /\ r.alert_id \in load_processed_ids(output_file)
        /\ \A item \in Range(ToProcess(feedback_data, limit,
                                         load_processed_ids(output_file))) :
            item.alert_id # r.alert_id

\* The futures whose result was taken by the loop and never appended: the
\* append raised.
SaveFailedFor ==
    { i \in Collected : futures[i].out.ok /\ ResultOf(i) \notin Range(appended) }
Drained == Running = {} /\ Queued = {}

C9_WellFormedLoaded ==
    pc # "down" => \A i \in ResultLines(output_file) :
        output_file[i].alert_id \in processed_ids

\* C10: on a file the loader reads to its end, the loaded processed_ids holds
\* exactly the alert_id values of the lines, so a line without alert_id adds
\* nothing and no record is left out of the submission because of one.
C10_OnlyLineIds ==
    (\A i \in 1..Len(output_file) : output_file[i].kind # "nonobj") =>
        /\ pc # "down" => processed_ids = ResultIds(output_file)
        /\ pc = "collecting" => \A k \in 1..Len(feedback_data) :
            feedback_data[k].alert_id \notin ResultIds(store0)
                => feedback_data[k] \in Range(to_process)

\* C11: whatever the worker count and the order in which concurrent calls
\* finish, at most one _save_result is in progress, and every line of the output
\* file is one complete result record, but for the last line while the one
\* append in progress is writing it.
C11_AppendsSerialized ==
    /\ Cardinality(Saving) <= 1
    /\ \A k \in 1..Len(output_file) :
        \/ output_file[k].kind = "result" /\ output_file[k].nl
        \/ /\ k = Len(output_file)
           /\ \E i \in Saving :
                output_file[k] = BeginWrite(<<>>, ResultOf(i))[1]
    /\ pc # "down" =>
        /\ Len(output_file) = Len(store0) + Len(appended) + Cardinality(Saving)
        /\ Range(appended) \subseteq Results(output_file)

\* C11 witness: with two workers, two calls have finished with a result: the
\* append of one is in progress while the other waits for the loop.
C11_Witness ==
    /\ num_workers >= 2
    /\ \E i, j \in Submitted :
        /\ i # j
        /\ futures[i].st = "saving"
        /\ futures[j].st = "done"
        /\ futures[j].out.ok

\* C12: at every moment of a run with num_workers workers at most num_workers
\* calls of classify_item are in progress, however many records were submitted.
C12_AtMostWInFlight ==
    /\ Cardinality(Running) <= num_workers
    /\ \A i \in Running : \A j \in Queued : i < j

\* C12 witness: more records were submitted than there are workers: every
\* worker is in a call and a submitted call waits in the queue.
C12_Witness ==
    /\ Cardinality(Submitted) > num_workers
    /\ Cardinality(Running) = num_workers
    /\ Queued # {}

\* The file ends with a newline, or is empty.
EndsWithNewline(lines) == lines = <<>> \/ lines[Len(lines)].nl

\* C13: the value run returns is the number of appends made in that run, one
\* per submitted record for which classify_item returned a result; on a file
\* that ended with a newline it is the number of result lines the file gained.
C13_ReturnCountsAppends ==
    /\ pc = "collecting" => success_count = Len(appended)
    /\ pc = "returned" =>
        /\ success_count = Len(appended)
        /\ success_count = Cardinality({ i \in Submitted : futures[i].out.ok })
        /\ EndsWithNewline(store0) =>
            /\ Len(output_file) = Len(store0) + success_count
            /\ \A k \in 1..success_count :
                output_file[Len(store0) + k] =
                    ResultLine(appended[k].alert_id, appended[k].theme)

\* C13 witness: run has returned a count that is at least one and less than the
\* number of submitted records, one of which got no result.
C13_Witness ==
    /\ pc = "returned"
    /\ success_count >= 1
    /\ success_count < Cardinality(Submitted)
    /\ \E i \in Submitted : ~futures[i].out.ok

\* C14: without a project id or without the input file main calls sys.exit(1)
\* before anything else: the step that ends in the exit leaves the output file
\* and the trend file as they were, and the process has read no processed ids,
\* submitted nothing, called no model and not called generate_global_trends.
C14_StartupFailsEarly ==
    /\ [](pc # "down" /\ env # EnvOk =>
            /\ pc = "exit1"
            /\ processed_ids = {}
            /\ store0 = <<>>
            /\ futures = <<>>
            /\ invoked = {}
            /\ appended = <<>>
            /\ ~trends_result.called)
    /\ [][pc' = "exit1" \/ pc = "exit1" =>
            output_file' = output_file /\ trend_file' = trend_file]_vars

\* C14 witness: main has exited with code 1 for want of the input file, on an
\* output file that holds results and beside a trend file of an earlier process.
C14_Witness ==
    /\ pc = "exit1"
    /\ ~env.input_exists
    /\ ResultIds(output_file) # {}
    /\ trend_file # <<>>

\* The effective comment as C15 words it: the first score entry whose comment
\* or value has more than 10 trimmed characters gives that text.
RECURSIVE FirstQualifying(_, _)
FirstQualifying(scores, i) ==
    IF i > Len(scores) THEN Absent
    ELSE IF scores[i].comment.trim > MinCommentLen THEN scores[i].comment
    ELSE IF scores[i].value.trim > MinCommentLen THEN scores[i].value
    ELSE FirstQualifying(scores, i + 1)

\* C15: for a record with an empty primary comment, run and classify_item both
\* take as comment the first score text, comment or value, of more than 10
\* trimmed characters, and a record that has one, is not yet processed and is not
\* cut off by the cap is submitted.
C15_ValueFallbackInBoth ==
    InRun => \A k \in 1..Len(feedback_data) :
        LET item == feedback_data[k]
            effective == FirstQualifying(item.feedback_scores, 1)
        IN ~item.human_comment.truthy =>
            /\ ClassifyComment(item) = effective
            /\ RunComment(item) = effective
            /\ ( /\ effective.trim > MinCommentLen
                 /\ item.alert_id \notin ResultIds(store0)
                 /\ limit = <<>> )
               => item \in Range(to_process)

\* The first n eligible records of the input.
FirstEligible(n) == Take(SelectSeq(feedback_data, Eligible), n)

\* C16: with a cap N >= 0, every submitted record is among the first N eligible
\* records of the input, and the submitted records are those of the first N
\* that were not processed: a processed one among them still takes its slot.
C16_CapBeforeProcessedFilter ==
    (InRun /\ limit # <<>>) =>
        LET NotProcessed(item) == item.alert_id \notin load_processed_ids(store0)
        IN /\ Range(to_process) \subseteq Range(FirstEligible(limit[1]))
           /\ to_process = SelectSeq(FirstEligible(limit[1]), NotProcessed)

TrendsFailed == trends_result.resp # "json" \/ trends_result.write # "ok"

\* C17: a call of generate_global_trends raises nothing: when the model call,
\* the parsing of its answer or the write of the trend file fails it returns the
\* fallback (no trends, "Error generating trends."), otherwise the parsed
\* answer, and main goes on to its last lines.
C17_TrendsNeverRaise ==
    /\ trends_result.called =>
        /\ ~trends_result.raised
        /\ pc = "trended"
        /\ trends_result.ret = IF TrendsFailed THEN "fallback" ELSE "trends"
    /\ pc \in {"trended", "trendraised"} => (pc = "trended" <=> trends_result.called)

\* C17 witness: generate_global_trends has returned the fallback after the
\* write of the trend file failed half-way.
C17_Witness ==
    /\ pc = "trended"
    /\ trends_result.called
    /\ trends_result.resp = "json"
    /\ trends_result.write = "partial"
    /\ trends_result.ret = "fallback"

\* C18 as stated: after any call of generate_global_trends the trend file holds
\* one JSON object, the output of that call.
C18_Original ==
    trends_result.called => trend_file = <<TrendObject(runs, TRUE)>>

\* C18 amended: a call that succeeds leaves in the trend file its own output
\* and nothing else; a call whose model call or parsing fails, or whose open
\* fails, leaves the file as it was; a call whose write fails leaves the file
\* empty or with a prefix of its output. The file never holds two texts.
C18_SuccessOverwrites ==
    /\ Len(trend_file) <= 1
    /\ trends_result.called =>
        /\ ~TrendsFailed => trend_file = <<TrendObject(runs, TRUE)>>
        /\ TrendsFailed =>
            /\ TrendObject(runs, TRUE) \notin Range(trend_file)
            /\ IF trends_result.resp = "json"
                    /\ trends_result.write \in {"truncated", "partial"}
               THEN trend_file \in {<<>>, <<TrendObject(runs, FALSE)>>}
               ELSE trend_file = trends_result.before

\* C18 witness: a call has succeeded beside the trend file of an earlier
\* process, and the file holds its output alone.
C18_Witness ==
    /\ trends_result.called
    /\ ~TrendsFailed
    /\ trends_result.before # <<>>
    /\ trend_file = <<TrendObject(runs, TRUE)>>

\* C19: no step of a process, be it the load, the selection, an append that
\* returns, fails or is cut by a kill, removes, reorders or rewrites a line of
\* the output file: the file only grows at its end, where bytes written behind
\* an unterminated last line continue that line.
C19_AppendOnly ==
    [][/\ Len(output_file') >= Len(output_file)
       /\ \A k \in 1..Len(output_file) :
            \/ output_file'[k] = output_file[k]
            \/ /\ k = Len(output_file)
               /\ ~output_file[k].nl
               /\ output_file'[k].kind = "malformed"]_vars

\* C19 witness: a process that found lines in the output file has appended to
\* it, and the lines it found are the first lines of the file.
C19_Witness ==
    /\ InRun
    /\ store0 # <<>>
    /\ appended # <<>>
    /\ Len(output_file) = Len(store0) + Len(appended)
    /\ SubSeq(output_file, 1, Len(store0)) = store0

Stalled(i) == to_process[i].resp = RespStall

\* Every submitted record but the one whose call is stalled went through the
\* loop, its result, when it has one, appended.
OthersDone ==
    \A i \in Submitted : ~Stalled(i) =>
        /\ futures[i].st = "collected"
        /\ futures[i].out.ok => ResultOf(i) \in Range(appended)

\* C20: with any worker count, a model call that never returns keeps no other
\* submitted record from being classified and appended in the end: the process
\* never comes to rest, no step left to take, with another record still waiting.
C20_StallBlocksNobody ==
    (pc = "collecting" /\ ~ENABLED NextStall) => OthersDone

AppendedIds == { r.alert_id : r \in Range(appended) }

\* C22: in a running process processed_ids never loses an id; it holds the ids
\* loaded at the start and the ids of the results whose append has returned, no
\* others: a step that adds an id is the step that appended its result, and when
\* run returns the set is the loaded set united with the ids appended in the run.
C22_ProcessedIdsGrow ==
    /\ [](pc # "down" =>
            processed_ids = load_processed_ids(store0) \cup AppendedIds)
    /\ [][pc # "down" /\ pc' # "down" =>
            /\ processed_ids \subseteq processed_ids'
            /\ \A id \in processed_ids' \ processed_ids :
                /\ Len(appended') = Len(appended) + 1
                /\ appended'[Len(appended')].alert_id = id
                /\ output_file' = save_result(output_file, appended'[Len(appended')])]_vars

\* C22 witness: run has returned on a file that held a result, and processed_ids
\* holds the loaded id and the id appended in this run.
C22_Witness ==
    /\ pc = "returned"
    /\ load_processed_ids(store0) # {}
    /\ AppendedIds # {}
    /\ processed_ids = load_processed_ids(store0) \cup AppendedIds

\* C23: the results main passes to generate_global_trends hold every result
\* appended in this run and every result the output file held when the process
\* started, and the call is made only after run has returned with every
\* submitted record collected.
C23_TrendsSeeAllResults ==
    trends_result.called =>
        /\ Range(appended) \subseteq Range(trends_result.input)
        /\ Results(store0) \subseteq Range(trends_result.input)
        /\ Collected = Submitted
        /\ completed_count = Len(to_process)

\* C23 witness: generate_global_trends was called in a process that found a
\* result in the output file and appended another.
C23_Witness ==
    /\ trends_result.called
    /\ Results(store0) # {}
    /\ appended # <<>>
    /\ Len(trends_result.input) >= 2

\* C24: once the checks at the start of main have passed, the trend stage does
\* not end the process by an exception, whatever lines the loader tolerated in
\* the output file.
C24_TrendStageNeverRaises == pc # "trendraised"

\* The calls of classify_item that got past the processed check and the
\* comment guard.
PastGuards ==
    { i \in Started :
        /\ to_process[i].alert_id \notin load_processed_ids(store0)
        /\ ClassifyComment(to_process[i]).trim >= MinCommentLen }

\* C25: when the extraction of the earlier assessment fails at any step, the
\* four fields stay at "N/A" and the record is still sent to the model: the
\* failure neither skips the record nor raises.
C25_ExtractionFailureTolerated ==
    \A i \in PastGuards :
        to_process[i].gen \in {"badjson", "nonobj", "notmapping", "badgaps"} =>
            /\ Extract(to_process[i].gen).fields = "N/A"
            /\ futures[i].out.called
            /\ ~futures[i].out.raised

\* C26: a call of classify_item, whatever its record and its outcome, leaves
\* the output file and processed_ids as they are: a step that changes one of
\* them is a turn of the collecting loop for a finished call with a result.
C26_ClassifyItemWritesNothing ==
    /\ [][(\E i \in DOMAIN futures :
                /\ futures'[i].st # futures[i].st
                /\ futures'[i].st \in {"running", "done"})
            => UNCHANGED << output_file, processed_ids >>]_vars
    /\ [][(output_file' # output_file \/ processed_ids' # processed_ids)
            => \E i \in DOMAIN futures :
                /\ futures[i].st = "done"
                /\ futures'[i].st = "collected"
                /\ futures[i].out.ok]_vars

\* C26 witness: a call that returned a result and a call whose model call
\* raised have both finished, and the output file and processed_ids are those
\* the process started with.
C26_Witness ==
    /\ output_file = store0
    /\ processed_ids = load_processed_ids(store0)
    /\ \E i, j \in Submitted :
        /\ futures[i].st = "done"
        /\ futures[i].out.ok
        /\ futures[j].st = "done"
        /\ futures[j].out.called
        /\ to_process[j].resp = RespRaise

\* C29: classify_item calls the model for no record whose effective comment
\* has a trimmed length of 10 or less, also for a record that did not pass the
\* selector of run.
C29_NoModelCallUpToTen ==
    \A i \in Started :
        ClassifyComment(to_process[i]).trim <= MinCommentLen =>
            /\ ~futures[i].out.called
            /\ to_process[i].alert_id \notin invoked

\* The output file after the results of a sequence were appended to it, one
\* after the other.
RECURSIVE FileAfter(_, _)
FileAfter(lines, results) ==
    IF results = <<>> THEN lines
    ELSE FileAfter(save_result(lines, Head(results)), Tail(results))

\* The orders in which n finished calls can be collected.
Orders(n) == { p \in [1..n -> 1..n] : \A a, b \in 1..n : p[a] = p[b] => a = b }

\* C27: with the deterministic stub, what is stored for the submitted records
\* when run returns does not depend on the order of the worker and loop steps:
\* the outcome of each call is the one its record and the loaded ids determine,
\* and the results the output file holds are those it would hold had the loop
\* collected the finished calls in any other order.
C27_ContentScheduleFree ==
    pc = "returned" =>
        /\ \A i \in Submitted :
            futures[i].out = classify_item(to_process[i], load_processed_ids(store0))
        /\ \A p \in Orders(Len(appended)) :
            Results(FileAfter(store0, [k \in 1..Len(appended) |-> appended[p[k]]]))
                = Results(output_file)

\* The line of the k-th result collected in this process: the lines follow those
\* the process found, the first of them continuing the last line found when
\* that line had no newline.
LineOfAppended(k) ==
    IF EndsWithNewline(store0) THEN Len(store0) + k ELSE Len(store0) + k - 1

\* C28: while run collects and when it has returned, the records appended in
\* the run stand in the output file behind the lines found at the start, in the
\* order in which the loop collected them, whatever the order of submission: the
\* line of a result collected earlier precedes the line of one collected later.
C28_AppendOrderIsCollectOrder ==
    pc \in {"collecting", "returned"} =>
        /\ Len(output_file) =
                IF appended = <<>> THEN Len(store0) ELSE LineOfAppended(Len(appended))
        /\ \A k \in 1..Len(appended) :
            IF LineOfAppended(k) = Len(store0)
            THEN output_file[LineOfAppended(k)].kind = "malformed"
            ELSE output_file[LineOfAppended(k)] =
                    ResultLine(appended[k].alert_id, appended[k].theme)
        /\ \A k \in 1..Len(store0) :
            k < Len(store0) \/ EndsWithNewline(store0) \/ appended = <<>>
                => output_file[k] = store0[k]

\* C28 witness: the call submitted second was collected first, and its line
\* stands before the line of the call submitted first.
C28_Witness ==
    /\ pc = "returned"
    /\ Len(appended) = 2
    /\ appended[1].alert_id = to_process[2].alert_id
    /\ appended[2].alert_id = to_process[1].alert_id
    /\ \E a, b \in ResultLines(output_file) :
        /\ a < b
        /\ output_file[a].alert_id = to_process[2].alert_id
        /\ output_file[b].alert_id = to_process[1].alert_id

DupInputs ==
    { d \in [1..MaxItems -> UNION { Profiles(i) : i \in 1..MaxItems }] :
        \E i, j \in 1..MaxItems : i # j /\ d[i].alert_id = d[j].alert_id }

InitDup ==
    /\ feedback_data \in DupInputs
    /\ limit = <<>>
    /\ num_workers \in 1..MaxWorkers
    /\ output_file = <<>>
    /\ pc = "down"
    /\ processed_ids = {}
    /\ to_process = <<>>
    /\ futures = <<>>
    /\ success_count = 0
    /\ completed_count = 0
    /\ progress = <<>>
    /\ runs = 0
    /\ invoked = {}
    /\ appended = <<>>
    /\ store0 = <<>>
    /\ env = EnvOk
    /\ trend_file = <<>>
    /\ trends_result = NoCall
    /\ feedback_file = <<>>

NextDup ==
    \/ Construct
    \/ Submit
    \/ \E i \in 1..MaxItems : WorkerStart(i)
    \/ \E i \in 1..MaxItems : WorkerFinish(i)
    \/ \E i \in 1..MaxItems : Collect(i)
    \/ Return
    \/ Exit

\* Runs on a batch in which an alert_id occurs twice.
SpecDup == InitDup /\ [][NextDup]_vars

\* The result lines appended for an id during the run.
AppendedFor(id) == { k \in 1..Len(appended) : appended[k].alert_id = id }

\* C31: when two records of the batch carry the same alert_id, at most one
\* result line for that id is appended during the run, in every interleaving of
\* the pool threads and the collecting thread.
C31_OneAppendPerDuplicate ==
    InRun => \A id \in 1..MaxItems : Cardinality(AppendedFor(id)) <= 1


\* The process found an output file whose last line is the partial record of a
\* write that a kill or a failure cut short.
FoundPartialLine ==
    /\ store0 # <<>>
    /\ store0[Len(store0)].kind = "malformed"
    /\ ~store0[Len(store0)].nl

\* C32: in a run resumed on a file whose last line is a partial record without
\* a newline, the loader skips that line and every result the run appends is a
\* parseable line of its own, whose id a later _load_processed_ids recovers.
C32_AppendsAfterPartialLine ==
    InRun /\ FoundPartialLine =>
        /\ load_processed_ids(store0) =
                load_processed_ids(SubSeq(store0, 1, Len(store0) - 1))
        /\ \A r \in Range(appended) :
            /\ r \in Results(output_file)
            /\ r.alert_id \in load_processed_ids(output_file)


\* ---------------------------------------------------------------------------
\* Records with every kind of generation observation and with several feedback
\* scores, given to run.
GenRecords(id) ==
    Profiles(id)
        \cup { WithGen(Record(id, MinCommentLen + 1, <<>>,
                               RespTheme("AI_VERDICT_INCONSISTENCY")), g) :
                 g \in GenKinds \ {"none"} }
        \cup { Record(id, 0, <<Score(MinCommentLen - 1, MinCommentLen + 1),
                                Score(MinCommentLen + 1, 0)>>, RespTheme("OTHER")),
               Record(id, 0, <<Score(0, MinCommentLen + 1),
                                Score(MinCommentLen + 2, 0)>>, RespTheme("OTHER")),
               Record(id, 0, <<Score(MinCommentLen, 0),
                                Score(0, MinCommentLen + 1)>>, RespTheme("OTHER")) }

GenInputs ==
    { d \in [1..MaxItems -> UNION { GenRecords(i) : i \in 1..MaxItems }] :
        \A i \in 1..MaxItems : d[i].alert_id = i }

InitGen ==
    /\ feedback_data \in GenInputs
    /\ limit = <<>>
    /\ num_workers \in 1..MaxWorkers
    /\ output_file = <<>>
    /\ pc = "down"
    /\ processed_ids = {}
    /\ to_process = <<>>
    /\ futures = <<>>
    /\ success_count = 0
    /\ completed_count = 0
    /\ progress = <<>>
    /\ runs = 0
    /\ invoked = {}
    /\ appended = <<>>
    /\ store0 = <<>>
    /\ env = EnvOk
    /\ trend_file = <<>>
    /\ trends_result = NoCall
    /\ feedback_file = <<>>

NextGen ==
    \/ Construct
    \/ Submit
    \/ \E i \in 1..MaxItems : WorkerStart(i)
    \/ \E i \in 1..MaxItems : WorkerFinish(i)
    \/ \E i \in 1..MaxItems : Collect(i)
    \/ Return
    \/ Exit

\* Runs on records whose traces and scores take every shape.
SpecGen == InitGen /\ [][NextGen]_vars

\* The call of classify_item for the i-th submitted record got past the comment
\* guard of line 130.
PassesCommentGuard(i) ==
    /\ ClassifyComment(to_process[i]).truthy
    /\ ClassifyComment(to_process[i]).trim >= MinCommentLen

\* C33: the selector of run implies the comment guard of classify_item: no
\* submitted record is skipped as 'comment too short', so for every submitted
\* record whose id is not yet processed the model is invoked.
C33_SubmittedReachModel ==
    InRun =>
        \A i \in Started :
            to_process[i].alert_id \notin load_processed_ids(store0) =>
                /\ PassesCommentGuard(i)
                /\ futures[i].out.called
                /\ to_process[i].alert_id \in invoked


\* The record is submitted by a later run on the same input and the file as it
\* stands.
EligibleLater(item) ==
    item \in Range(ToProcess(feedback_data, limit, load_processed_ids(output_file)))

\* The failed write left the whole JSON text of the record, without its newline,
\* as the last line of the file.
LeftWholeRecord(i) ==
    /\ output_file # <<>>
    /\ output_file[Len(output_file)] = Written(ResultOf(i), "nonewline")

\* C34 as stated: after _save_result raised for an item, its id is not in
\* processed_ids, success_count was not incremented for it, and a later run
\* submits the item again.
C34_Original ==
    InRun =>
        \A i \in SaveFailedFor :
            /\ to_process[i].alert_id \notin processed_ids
            /\ success_count = Len(appended)
            /\ EligibleLater(to_process[i])

\* C34 amended: after _save_result raised for an item, its id is not in
\* processed_ids and success_count counts only the appends that returned; a
\* later run submits the item again unless the failed write left the whole
\* JSON text of its record in the file, from which the later loader reads the id.
C34_FailedAppendNotMarked ==
    InRun =>
        \A i \in SaveFailedFor :
            /\ to_process[i].alert_id \notin processed_ids
            /\ success_count = Len(appended)
            /\ success_count < Cardinality({ j \in Collected : futures[j].out.ok })
            /\ EligibleLater(to_process[i]) <=> ~LeftWholeRecord(i)

\* C34 witness: an append raised after an earlier one had returned; the failed
\* record is not marked, the count is one, and a later run would take it again.
C34_Witness ==
    /\ pc = "raised"
    /\ success_count = 1
    /\ \E i \in SaveFailedFor :
        /\ to_process[i].alert_id \notin processed_ids
        /\ EligibleLater(to_process[i])
        /\ ~LeftWholeRecord(i)


\* ---------------------------------------------------------------------------
\* The answers of the model that are JSON objects: every subset of the five
\* fields, the theme, when present, valid or not.
FieldValue(f) ==
    CASE f = "confidence" -> {"HIGH"}
      [] f = "theme" -> {"LEGITIMATE_SOFTWARE", "NOT_A_REAL_THEME"}
      [] OTHER -> {"text"}

ObjectData ==
    UNION { { d \in [present -> UNION { FieldValue(f) : f \in ResponseFields }] :
                \A f \in present : d[f] \in FieldValue(f) } :
            present \in SUBSET ResponseFields }

\* The first record is answered with any such object, the others with an
\* answer of the usual kinds.
FieldInputs ==
    { d \in [1..MaxItems -> UNION { Profiles(i) : i \in 1..MaxItems }
                              \cup { Record(1, MinCommentLen + 1, <<>>, RespObject(o)) :
                                       o \in ObjectData }] :
        /\ \A i \in 1..MaxItems : d[i].alert_id = i
        /\ d[1].resp.kind = "object"
        /\ \A i \in 2..MaxItems :
            d[i] \in { Record(i, MinCommentLen + 1, <<>>, RespTheme("OTHER")),
                       Record(i, MinCommentLen + 1, <<>>, RespBadJson) } }

\* A constructed ThemeClassifier on no output file, the records submitted.
InitFields ==
    /\ feedback_data \in FieldInputs
    /\ limit = <<>>
    /\ num_workers = 1
    /\ output_file = <<>>
    /\ pc = "collecting"
    /\ processed_ids = {}
    /\ to_process = feedback_data
    /\ futures = [i \in 1..Len(feedback_data) |-> [st |-> "queued", out |-> Skipped]]
    /\ success_count = 0
    /\ completed_count = 0
    /\ progress = <<>>
    /\ runs = 1
    /\ invoked = {}
    /\ appended = <<>>
    /\ store0 = output_file
    /\ env = EnvOk
    /\ trend_file = <<>>
    /\ trends_result = NoCall
    /\ feedback_file = <<>>

\* classify_item on answers with missing fields, the loop of run collecting.
SpecFields == InitFields /\ [][NextCall]_vars

\* C35: an answer of the model that is a JSON object with fields missing is not
\* rejected: classify_item returns a result, in which a missing theme is OTHER,
\* a missing confidence is UNKNOWN, a missing text field is the empty string
\* and every field that is present keeps its value (the theme when it is valid);
\* the loop appends the result.
C35_MissingFieldsDefaulted ==
    \A i \in Started :
        to_process[i].resp.kind = "object" =>
            LET data == to_process[i].resp.data
                out == futures[i].out
            IN /\ out.called /\ out.ok /\ ~out.raised
               /\ "theme" \notin DOMAIN data => out.result.theme = "OTHER"
               /\ "confidence" \notin DOMAIN data => out.result.confidence = "UNKNOWN"
               /\ \A f \in {"reasoning", "missing_context", "trend_insight"} :
                    f \notin DOMAIN data => out.result[f] = ""
               /\ \A f \in DOMAIN data :
                    out.result[f] = IF f = "theme" THEN ValidateTheme(data[f]) ELSE data[f]
               /\ out.theme = out.result.theme
               /\ futures[i].st = "collected" =>
                    /\ [alert_id |-> to_process[i].alert_id, theme |-> out.result.theme]
                            \in Range(appended)
                    /\ ResultLine(to_process[i].alert_id, out.result.theme)
                            \in Range(output_file)

\* C35 witness: an answer that holds neither theme nor confidence nor reasoning
\* was turned into a result with the defaults, and the loop has appended it.
C35_Witness ==
    \E i \in Collected :
        /\ to_process[i].resp.kind = "object"
        /\ DOMAIN to_process[i].resp.data = {"trend_insight"}
        /\ futures[i].out.result.theme = "OTHER"
        /\ futures[i].out.result.confidence = "UNKNOWN"
        /\ futures[i].out.result.trend_insight = "text"
        /\ ResultLine(to_process[i].alert_id, "OTHER") \in Range(output_file)


\* ------------------------------------------------- fetch_traces: linking
\* A feedback score: metadata.alert_id and sessionId (NoId when missing, null
\* or empty) and a note that tells the metadata of one score from another's.
FeedbackScore(m, s, n) == [metadata |-> [alert_id |-> m, note |-> n], sessionId |-> s]
ScoreIds == {NoId, 1, 2}
FeedbackFiles ==
    UNION { [1..k -> { FeedbackScore(m, s, n) : m \in ScoreIds, s \in ScoreIds, n \in 1..2 }] :
            k \in 0..MaxScores }

\* `a or b`
Or(a, b) == IF a # NoId THEN a ELSE b

\* create_linked_data, lines 257-270: the dict feedback_by_alert after the
\* scores from the i-th on were read (traces_by_alert is copied beside them).
RECURSIVE GroupFrom(_, _, _)
GroupFrom(scores_, i, feedback_by_alert) ==
    IF i > Len(scores_) THEN feedback_by_alert
    ELSE LET score == scores_[i]
             metadata == score.metadata
             alert_id == Or(metadata.alert_id, score.sessionId)
             entered == IF alert_id \in DOMAIN feedback_by_alert
                        THEN feedback_by_alert
                        ELSE feedback_by_alert @@
                                (alert_id :> [alert_id |-> alert_id,
                                              feedback_scores |-> <<>>,
                                              metadata |-> metadata])
         IN IF alert_id = NoId THEN GroupFrom(scores_, i + 1, feedback_by_alert)
            ELSE GroupFrom(scores_, i + 1,
                           [entered EXCEPT ![alert_id].feedback_scores = Append(@, score)])

\* sorted(feedback_by_alert.values(), key=lambda x: x["alert_id"])
RECURSIVE SortedByAlertId(_)
SortedByAlertId(by) ==
    IF DOMAIN by = {} THEN <<>>
    ELSE LET least == CHOOSE a \in DOMAIN by : \A b \in DOMAIN by : a <= b
         IN <<by[least]>> \o SortedByAlertId([b \in DOMAIN by \ {least} |-> by[b]])

\* A linking that makes one record for every score (a faulty variant of
\* create_linked_data).
create_linked_data_per_score(scores_) ==
    LET WithId(score) == Or(score.metadata.alert_id, score.sessionId) # NoId
        kept == SelectSeq(scores_, WithId)
    IN [k \in 1..Len(kept) |->
            [alert_id |-> Or(kept[k].metadata.alert_id, kept[k].sessionId),
             feedback_scores |-> <<kept[k]>>,
             metadata |-> kept[k].metadata]]

\* create_linked_data, lines 238-278.
create_linked_data(scores_) == SortedByAlertId(GroupFrom(scores_, 1, <<>>))

\* fetch_traces has read a feedback file and is about to link it.
InitLink ==
    /\ feedback_file \in FeedbackFiles
    /\ feedback_data = <<>>
    /\ limit = <<>>
    /\ num_workers = 1
    /\ output_file = <<>>
    /\ pc = "linking"
    /\ processed_ids = {}
    /\ to_process = <<>>
    /\ futures = <<>>
    /\ success_count = 0
    /\ completed_count = 0
    /\ progress = <<>>
    /\ runs = 0
    /\ invoked = {}
    /\ appended = <<>>
    /\ store0 = <<>>
    /\ env = EnvOk
    /\ trend_file = <<>>
    /\ trends_result = NoCall

\* The call of create_linked_data; its list becomes the input file of the
\* classifier.
LinkData ==
    /\ pc = "linking"
    /\ pc' = "linked"
    /\ feedback_data' = create_linked_data(feedback_file)
    /\ UNCHANGED << feedback_file, limit, num_workers, outside_run, output_file,
                    processed_ids, to_process, futures, counters, runs, invoked,
                    appended, store0 >>

NextLink == LinkData

SpecLink == InitLink /\ [][NextLink]_vars

\* The id the claim gives a score: metadata.alert_id, else sessionId.
ScoreId(score) ==
    IF score.metadata.alert_id # NoId THEN score.metadata.alert_id ELSE score.sessionId
ScoresOf(id) == { k \in 1..Len(feedback_file) : ScoreId(feedback_file[k]) = id }
LinkedIds == { ScoreId(feedback_file[k]) : k \in 1..Len(feedback_file) } \ {NoId}

\* C36: create_linked_data emits exactly one record for each distinct alert id
\* of the feedback scores, so the alert_ids of the input file are pairwise
\* distinct; a record holds every score of its id in input order and the
\* metadata of the first of them; scores without an id are in no record.
C36_OneRecordPerAlertId ==
    pc = "linked" =>
        /\ { feedback_data[k].alert_id : k \in 1..Len(feedback_data) } = LinkedIds
        /\ \A j, k \in 1..Len(feedback_data) :
            j # k => feedback_data[j].alert_id # feedback_data[k].alert_id
        /\ \A k \in 1..Len(feedback_data) :
            LET rec == feedback_data[k]
                OfId(score) == ScoreId(score) = rec.alert_id
                first == CHOOSE a \in ScoresOf(rec.alert_id) :
                            \A b \in ScoresOf(rec.alert_id) : a <= b
            IN /\ rec.feedback_scores = SelectSeq(feedback_file, OfId)
               /\ rec.metadata = feedback_file[first].metadata
               /\ \A n \in 1..Len(rec.feedback_scores) :
                    ScoreId(rec.feedback_scores[n]) # NoId

\* C36 witness: three scores, the first and the third of one id (the third
\* reaching it through sessionId) with different metadata, the second without
\* an id: one record, holding the first and the third score and the metadata of
\* the first.
C36_Witness ==
    /\ pc = "linked"
    /\ Len(feedback_file) = 3
    /\ feedback_file[1] = FeedbackScore(2, NoId, 1)
    /\ feedback_file[2] = FeedbackScore(NoId, NoId, 1)
    /\ feedback_file[3] = FeedbackScore(NoId, 2, 2)
    /\ Len(feedback_data) = 1
    /\ feedback_data[1].feedback_scores = <<feedback_file[1], feedback_file[3]>>
    /\ feedback_data[1].metadata = feedback_file[1].metadata

====
